---- MODULE Spec2Model ----
(***************************************************************************)
(* Model of src/app/screens/authentication-screen/authentication-screen.tsx *)
(* The file holds two view-controllers:                                     *)
(*   - AuthenticationScreen (lines 78-204): the biometric gate;             *)
(*   - SendBitcoinConfirmationScreen (lines 287-663): payment confirmation. *)
(* Each screen holds its own, unshared state, so each gets a specification  *)
(* of its own: Spec (payment confirmation) and AuthSpec (authentication).   *)
(* JavaScript runs one handler at a time: a handler, up to its first await, *)
(* is one action; the continuation after an await is another action.        *)
(* State set by a handler is rendered before the next event is handled, so  *)
(* every handler reads the current status. A continuation that resumes      *)
(* after its screen was popped still makes its setStatus/setErrs calls; the *)
(* model records them.                                                      *)
(***************************************************************************)
EXTENDS Integers, Sequences, FiniteSets, TLC

(***************************************************************************)
(* Bounds of the model.                                                     *)
(***************************************************************************)
MaxPresses == 2
MaxAmount == 1
MaxFee == 1
MaxBalance == 2
MaxAttempts == 3
MaxLogouts == 2
MaxPinAttempts == 1

(***************************************************************************)
(* Optional values: null/undefined is the empty sequence, a present value   *)
(* v is <<v>>.                                                              *)
(***************************************************************************)
Null == <<>>
Some(v) == <<v>>
Get(o) == o[1]

(***************************************************************************)
(* Payment confirmation screen: state.                                      *)
(***************************************************************************)
VARIABLES
    paymentType,       \* route.params.paymentType
    amountless,        \* route.params.amountless
    usernameIsValid,   \* UsernameValidation.isValid(route.params.username)
    paymentSatAmount,  \* convertCurrency(referenceAmount..., "BTC")
    fee,               \* useFee(...).value: Null while unknown
    balance,           \* balanceBtc(client)
    status,            \* useState<StatusType>
    errs,              \* useState<{message}[]>
    inflight,          \* mutations dispatched and not settled, in dispatch order
    dispatched,        \* every mutation dispatched so far, in order
    walletQueries,     \* calls of queryWallet(client, "network-only")
    escaped,           \* exceptions that left a pay operation uncaught
    popped,            \* screens popped by navigation.pop; > 0: screen left
    presses,           \* presses of the confirmation button handled
    lastSettled        \* the last settled mutation and what the backend answered

payVars == <<paymentType, amountless, usernameIsValid, paymentSatAmount, fee,
             balance, status, errs, inflight, dispatched, walletQueries,
             escaped, popped, presses, lastSettled>>

(***************************************************************************)
(* Authentication screen: state.                                            *)
(***************************************************************************)
VARIABLES
    screenPurpose,     \* route.params.screenPurpose
    isPinEnabled,      \* route.params.isPinEnabled
    nav,               \* the screen on top of the navigation stack
    prompts,           \* biometric prompts presented and not yet answered
    attempts,          \* calls of attemptAuthentication so far
    pinAttempts,       \* keystore: failed PIN attempts
    isBiometricsEnabled, \* keystore: biometrics-enabled flag
    clipboardChecks,   \* calls of checkClipboard(client)
    resetting,         \* logout() calls awaiting resetDataStore
    alerts,            \* logged-out alerts shown and not yet dismissed
    resetsDone,        \* resetDataStore calls that have finished
    logouts,           \* presses of the logout button so far
    replaces,          \* calls of navigation.replace("Primary")
    lastHandler,       \* the handler that ran last
    lastEffects        \* the effects of the last handler, in order

authVars == <<screenPurpose, isPinEnabled, nav, prompts, attempts, pinAttempts,
              isBiometricsEnabled, clipboardChecks, resetting, alerts, resetsDone,
              logouts,
              replaces, lastHandler, lastEffects>>

vars == <<payVars, authVars>>

(***************************************************************************)
(* Payment confirmation screen: constants and pure helpers.                 *)
(***************************************************************************)
Status == [IDLE |-> "idle", LOADING |-> "loading", PENDING |-> "pending",
           SUCCESS |-> "success", ERROR |-> "error"]

StatusType == {Status.IDLE, Status.LOADING, Status.PENDING, Status.SUCCESS,
               Status.ERROR}

\* The values route.params.paymentType takes, and one value outside them,
\* for which pay falls through every branch.
PaymentTypes == {"username", "lightning", "onchain", "other"}

\* The gql documents: the field each mutation returns its payload under.
LN_PAY == "lnInvoicePaymentSend"
LN_NO_AMOUNT_PAY == "lnNoAmountInvoicePaymentSend"
INTRA_LEDGER_PAY == "intraLedgerPaymentSend"
ONCHAIN_PAY == "onChainPaymentSend"

Mutations == {LN_PAY, LN_NO_AMOUNT_PAY, INTRA_LEDGER_PAY, ONCHAIN_PAY}

\* translate(key): the message of a key, a one-piece text.
translate(key) == <<key>>

\* What the backend can answer to a mutation. The promise rejects, or it
\* resolves to {data, errors}: data is null or holds the payload (status and
\* errors) under the mutation's field; errors is undefined or a list of
\* GraphQL errors (possibly empty).
BackendStatuses == {"SUCCESS", "PENDING", "FAILURE"}
PayloadErrors == {<<>>, <<[message |-> <<"insufficient balance">>]>>}
GraphQLErrors == {Null, Some(<<>>),
                  Some(<<[message |-> <<"graphql error">>, path |-> "p"]>>)}

Responses(mutation) ==
    {[rejected |-> TRUE, data |-> Null, errors |-> Null]}
    \cup {[rejected |-> FALSE, data |-> Null, errors |-> e] :
              e \in {Null, Some(<<[message |-> <<"graphql error">>, path |-> "p"]>>)}}
    \cup {[rejected |-> FALSE,
           data |-> Some([field |-> mutation, status |-> s, errors |-> pe]),
           errors |-> e] :
              s \in BackendStatuses, pe \in PayloadErrors, e \in GraphQLErrors}

NoSettled == [mutation |-> "", resp |-> [rejected |-> FALSE, data |-> Null, errors |-> Null]]

\* errors.map((error) => ({ message: error.message }))
MapMessages(errors) == [i \in 1..Len(errors) |-> [message |-> errors[i].message]]

\* const errs = errors ? errors.map(...) : data.<field>.errors
\* (an empty array is truthy in JavaScript)
ReturnedErrs(resp) ==
    IF resp.errors # Null THEN MapMessages(Get(resp.errors))
    ELSE Get(resp.data).errors

\* data.<field>.status can be read: data is there and holds the field.
Readable(resp, field) == resp.data # Null /\ Get(resp.data).field = field

\* useMemo: fee.value === null ? paymentSatAmount : paymentSatAmount + fee.value
totalAmount == IF fee = Null THEN paymentSatAmount ELSE paymentSatAmount + Get(fee)

\* useMemo: the "total exceeds balance" text, or "".
errorMessage ==
    IF totalAmount > balance THEN "SendBitcoinConfirmationScreen.totalExceed" ELSE ""

RemoveAt(seq, i) == [j \in 1..(Len(seq) - 1) |-> IF j < i THEN seq[j] ELSE seq[j + 1]]

(***************************************************************************)
(* Payment confirmation screen: handlers.                                   *)
(***************************************************************************)
PayInit ==
    /\ paymentType \in PaymentTypes
    /\ amountless \in BOOLEAN
    /\ usernameIsValid \in BOOLEAN
    /\ paymentSatAmount \in 0..MaxAmount
    /\ fee \in {Null} \cup {Some(f) : f \in 0..MaxFee}
    /\ balance \in 0..MaxBalance
    /\ status = Status.IDLE
    /\ errs = <<>>
    /\ inflight = <<>>
    /\ dispatched = <<>>
    /\ walletQueries = 0
    /\ escaped = 0
    /\ popped = 0
    /\ presses = 0
    /\ lastSettled = NoSettled

\* handlePaymentReturn(status, errors)
handlePaymentReturn(st, errors) ==
    IF st = "SUCCESS"
    THEN /\ walletQueries' = walletQueries + 1
         /\ status' = Status.SUCCESS
         /\ UNCHANGED errs
    ELSE IF st = "PENDING"
    THEN /\ status' = Status.PENDING
         /\ UNCHANGED <<errs, walletQueries>>
    ELSE /\ status' = Status.ERROR
         /\ errs' = errors
         /\ UNCHANGED walletQueries

\* handlePaymentError(error)
handlePaymentError(error) ==
    /\ status' = Status.ERROR
    /\ errs' = <<[message |-> <<"an error occured. try again later\n", error>>]>>
    /\ UNCHANGED walletQueries

\* A pre-dispatch validation failure: setStatus(ERROR); setErrs([one]); return
Invalid(key) ==
    /\ status' = Status.ERROR
    /\ errs' = <<[message |-> translate(key)]>>
    /\ UNCHANGED <<inflight, dispatched>>

\* setErrs([]); setStatus(LOADING); then the mutation is called (up to the await)
Dispatch(mutation) ==
    /\ errs' = <<>>
    /\ status' = Status.LOADING
    /\ inflight' = Append(inflight, mutation)
    /\ dispatched' = Append(dispatched, mutation)

\* payUsername, up to its await
payUsername ==
    IF ~usernameIsValid
    THEN Invalid("SendBitcoinScreen.invalidUsername")
    ELSE Dispatch(INTRA_LEDGER_PAY)

\* payLightning, up to its await
payLightning == Dispatch(LN_PAY)

\* payAmountlessLightning, up to its await
payAmountlessLightning ==
    IF paymentSatAmount = 0
    THEN Invalid("SendBitcoinScreen.noAmount")
    ELSE Dispatch(LN_NO_AMOUNT_PAY)

\* A variant of payOnchain without the zero-amount check.
payOnchainWithoutAmountCheck == Dispatch(ONCHAIN_PAY)

\* payOnchain, up to its await
payOnchain ==
    IF paymentSatAmount = 0
    THEN Invalid("SendBitcoinScreen.noAmount")
    ELSE Dispatch(ONCHAIN_PAY)

\* A variant of pay that does not look at amountless.
payIgnoresAmountless ==
    IF paymentType = "username" THEN payUsername
    ELSE IF paymentType = "lightning" THEN payLightning
    ELSE IF paymentType = "onchain" THEN payOnchain
    ELSE UNCHANGED <<status, errs, inflight, dispatched>>

\* pay
pay ==
    IF paymentType = "username" THEN payUsername
    ELSE IF paymentType = "lightning"
    THEN (IF amountless THEN payAmountlessLightning ELSE payLightning)
    ELSE IF paymentType = "onchain" THEN payOnchain
    ELSE UNCHANGED <<status, errs, inflight, dispatched>>

\* A variant of onPress that lets a press in the error state pay again.
onPressRetriesOnError ==
    IF status \in {Status.SUCCESS, Status.PENDING}
    THEN /\ popped' = 2
         /\ UNCHANGED <<status, errs, inflight, dispatched>>
    ELSE IF errorMessage # ""
    THEN /\ popped' = 1
         /\ UNCHANGED <<status, errs, inflight, dispatched>>
    ELSE /\ pay
         /\ UNCHANGED popped

\* A variant of onPress without the balance check.
onPressSkipsBalanceCheck ==
    IF status \in {Status.SUCCESS, Status.PENDING, Status.ERROR}
    THEN /\ popped' = 2
         /\ UNCHANGED <<status, errs, inflight, dispatched>>
    ELSE /\ pay
         /\ UNCHANGED popped

\* The confirmation button's onPress.
onPress ==
    IF status \in {Status.SUCCESS, Status.PENDING, Status.ERROR}
    THEN /\ popped' = 2
         /\ UNCHANGED <<status, errs, inflight, dispatched>>
    ELSE IF errorMessage # ""
    THEN /\ popped' = 1
         /\ UNCHANGED <<status, errs, inflight, dispatched>>
    ELSE /\ pay
         /\ UNCHANGED popped

\* The user presses the confirmation button of the mounted screen. The
\* handler itself does not look at "loading", so it is modelled for every
\* status.
Press ==
    /\ UNCHANGED authVars
    /\ popped = 0
    /\ presses < MaxPresses
    /\ presses' = presses + 1
    /\ onPress
    /\ UNCHANGED <<paymentType, amountless, usernameIsValid, paymentSatAmount,
                   fee, balance, walletQueries, escaped, lastSettled>>

\* The field of data each pay operation reads after its await.
ResultField(mutation) == mutation

\* A variant of AfterAwait that reads the result outside the try block: the
\* TypeError leaves the operation and the status stays as it was.
AfterAwaitReadsOutsideTry(mutation, resp) ==
    IF resp.rejected
    THEN handlePaymentError("Error: rejected") /\ UNCHANGED escaped
    ELSE IF ~Readable(resp, ResultField(mutation))
    THEN escaped' = escaped + 1 /\ UNCHANGED <<status, errs, walletQueries>>
    ELSE /\ handlePaymentReturn(Get(resp.data).status, ReturnedErrs(resp))
         /\ UNCHANGED escaped

\* The try block after the await, and its catch: the rejection, or the
\* TypeError of reading a status that is not there, goes to handlePaymentError.
AfterAwait(mutation, resp) ==
    /\ IF resp.rejected
       THEN handlePaymentError("Error: rejected")
       ELSE IF ~Readable(resp, ResultField(mutation))
       THEN handlePaymentError("TypeError")
       ELSE handlePaymentReturn(Get(resp.data).status, ReturnedErrs(resp))
    /\ UNCHANGED escaped

\* A dispatched mutation settles and its pay operation resumes.
Settle ==
    /\ UNCHANGED authVars
    /\ \E i \in 1..Len(inflight) :
         \E resp \in Responses(inflight[i]) :
             /\ AfterAwait(inflight[i], resp)
             /\ inflight' = RemoveAt(inflight, i)
             /\ lastSettled' = [mutation |-> inflight[i], resp |-> resp]
             /\ UNCHANGED <<paymentType, amountless, usernameIsValid,
                            paymentSatAmount, fee, balance, dispatched, popped,
                            presses>>

\* useFee: the fee estimate arrives.
FeeArrives ==
    /\ UNCHANGED authVars
    /\ fee = Null
    /\ \E f \in 0..MaxFee : fee' = Some(f)
    /\ UNCHANGED <<paymentType, amountless, usernameIsValid, paymentSatAmount,
                   balance, status, errs, inflight, dispatched, walletQueries,
                   escaped, popped, presses, lastSettled>>

\* balanceBtc(client): the cached wallet balance changes (a wallet refetch).
BalanceChanges ==
    /\ UNCHANGED authVars
    /\ \E b \in 0..MaxBalance : b # balance /\ balance' = b
    /\ UNCHANGED <<paymentType, amountless, usernameIsValid, paymentSatAmount,
                   fee, status, errs, inflight, dispatched, walletQueries,
                   escaped, popped, presses, lastSettled>>



(***************************************************************************)
(* Authentication screen.                                                   *)
(***************************************************************************)
AuthenticationScreenPurpose ==
    [Authenticate |-> "Authenticate", TurnOnAuthentication |-> "TurnOnAuthentication"]

AuthInit ==
    /\ screenPurpose \in {AuthenticationScreenPurpose.Authenticate,
                          AuthenticationScreenPurpose.TurnOnAuthentication}
    /\ isPinEnabled \in BOOLEAN
    /\ nav = "authentication"
    /\ prompts = 0
    /\ attempts = 0
    /\ pinAttempts \in 0..MaxPinAttempts
    /\ isBiometricsEnabled \in BOOLEAN
    /\ clipboardChecks = 0
    /\ resetting = 0
    /\ alerts = 0
    /\ resetsDone = 0
    /\ logouts = 0
    /\ replaces = 0
    /\ lastHandler = "none"
    /\ lastEffects = <<>>

\* attemptAuthentication: the focus effect, or a press of the main button.
\* BiometricWrapper.authenticate presents the prompt.
attemptAuthentication ==
    /\ UNCHANGED payVars
    /\ nav = "authentication"
    /\ attempts < MaxAttempts
    /\ attempts' = attempts + 1
    /\ prompts' = prompts + 1
    /\ lastHandler' = "attemptAuthentication"
    /\ lastEffects' = <<"BiometricWrapper.authenticate">>
    /\ UNCHANGED <<screenPurpose, isPinEnabled, nav, pinAttempts,
                   isBiometricsEnabled, clipboardChecks, resetting, alerts,
                   resetsDone, logouts, replaces>>

\* A variant of handleAuthenticationSuccess that checks the clipboard before
\* it replaces the screen.
handleAuthenticationSuccessClipboardFirst ==
    IF screenPurpose = AuthenticationScreenPurpose.Authenticate
    THEN /\ pinAttempts' = 0
         /\ nav' = "Primary"
         /\ replaces' = replaces + 1
         /\ clipboardChecks' = clipboardChecks + 1
         /\ lastEffects' = <<"KeyStoreWrapper.resetPinAttempts",
                             "checkClipboard", "navigation.replace">>
         /\ UNCHANGED isBiometricsEnabled
    ELSE /\ isBiometricsEnabled' = TRUE
         /\ lastEffects' = <<"KeyStoreWrapper.setIsBiometricsEnabled">>
         /\ UNCHANGED <<pinAttempts, nav, replaces, clipboardChecks>>

\* handleAuthenticationSuccess
handleAuthenticationSuccess ==
    IF screenPurpose = AuthenticationScreenPurpose.Authenticate
    THEN /\ pinAttempts' = 0
         /\ nav' = "Primary"
         /\ replaces' = replaces + 1
         /\ clipboardChecks' = clipboardChecks + 1
         /\ lastEffects' = <<"KeyStoreWrapper.resetPinAttempts",
                             "navigation.replace", "checkClipboard">>
         /\ UNCHANGED isBiometricsEnabled
    ELSE IF screenPurpose = AuthenticationScreenPurpose.TurnOnAuthentication
    THEN /\ isBiometricsEnabled' = TRUE
         /\ lastEffects' = <<"KeyStoreWrapper.setIsBiometricsEnabled">>
         /\ UNCHANGED <<pinAttempts, nav, replaces, clipboardChecks>>
    ELSE /\ lastEffects' = <<>>
         /\ UNCHANGED <<pinAttempts, nav, replaces, clipboardChecks,
                        isBiometricsEnabled>>

\* A variant of handleAuthenticationFailure that lets the user in.
handleAuthenticationFailureUnlocks ==
    /\ nav' = "Primary"
    /\ replaces' = replaces + 1
    /\ lastEffects' = <<"navigation.replace">>
    /\ UNCHANGED <<pinAttempts, clipboardChecks, isBiometricsEnabled>>

\* handleAuthenticationFailure: the user cancelled or tapped out of the prompt.
handleAuthenticationFailure ==
    /\ lastEffects' = <<>>
    /\ UNCHANGED <<pinAttempts, nav, replaces, clipboardChecks, isBiometricsEnabled>>

\* The prompt is answered and calls the success callback.
BiometricSucceeds ==
    /\ UNCHANGED payVars
    /\ prompts > 0
    /\ prompts' = prompts - 1
    /\ lastHandler' = "handleAuthenticationSuccess"
    /\ handleAuthenticationSuccess
    /\ UNCHANGED <<screenPurpose, isPinEnabled, attempts, resetting, alerts,
                   resetsDone, logouts>>

\* The prompt is dismissed and calls the failure callback.
BiometricFails ==
    /\ UNCHANGED payVars
    /\ prompts > 0
    /\ prompts' = prompts - 1
    /\ lastHandler' = "handleAuthenticationFailure"
    /\ handleAuthenticationFailure
    /\ UNCHANGED <<screenPurpose, isPinEnabled, attempts, resetting, alerts,
                   resetsDone, logouts>>

\* logout, up to its await: the logout button is rendered for Authenticate.
logout ==
    /\ UNCHANGED payVars
    /\ nav = "authentication"
    /\ screenPurpose = AuthenticationScreenPurpose.Authenticate
    /\ logouts < MaxLogouts
    /\ logouts' = logouts + 1
    /\ resetting' = resetting + 1
    /\ lastHandler' = "logout"
    /\ lastEffects' = <<"resetDataStore">>
    /\ UNCHANGED <<screenPurpose, isPinEnabled, nav, prompts, attempts,
                   pinAttempts, isBiometricsEnabled, clipboardChecks, alerts,
                   resetsDone, replaces>>

\* logout, after its await: the logged-out alert is shown.
logoutResumes ==
    /\ UNCHANGED payVars
    /\ resetting > 0
    /\ resetting' = resetting - 1
    /\ resetsDone' = resetsDone + 1
    /\ alerts' = alerts + 1
    /\ lastHandler' = "logout"
    /\ lastEffects' = <<"Alert.alert">>
    /\ UNCHANGED <<screenPurpose, isPinEnabled, nav, prompts, attempts,
                   pinAttempts, isBiometricsEnabled, clipboardChecks, logouts,
                   replaces>>

\* resetDataStore rejects: logout ends there, no alert is shown.
logoutRejects ==
    /\ UNCHANGED payVars
    /\ resetting > 0
    /\ resetting' = resetting - 1
    /\ lastHandler' = "logout"
    /\ lastEffects' = <<>>
    /\ UNCHANGED <<screenPurpose, isPinEnabled, nav, prompts, attempts,
                   pinAttempts, isBiometricsEnabled, clipboardChecks, alerts,
                   resetsDone, logouts, replaces>>

\* The OK button of the logged-out alert.
alertOk ==
    /\ UNCHANGED payVars
    /\ alerts > 0
    /\ alerts' = alerts - 1
    /\ nav' = "Primary"
    /\ replaces' = replaces + 1
    /\ lastHandler' = "alertOk"
    /\ lastEffects' = <<"navigation.replace">>
    /\ UNCHANGED <<screenPurpose, isPinEnabled, prompts, attempts, pinAttempts,
                   isBiometricsEnabled, clipboardChecks, resetting, resetsDone,
                   logouts>>

\* The skip button, rendered for TurnOnAuthentication.
skip ==
    /\ UNCHANGED payVars
    /\ nav = "authentication"
    /\ screenPurpose = AuthenticationScreenPurpose.TurnOnAuthentication
    /\ nav' = "Primary"
    /\ replaces' = replaces + 1
    /\ lastHandler' = "skip"
    /\ lastEffects' = <<"navigation.replace">>
    /\ UNCHANGED <<screenPurpose, isPinEnabled, prompts, attempts, pinAttempts,
                   isBiometricsEnabled, clipboardChecks, resetting, alerts,
                   resetsDone, logouts>>

\* The "use PIN" button, rendered for Authenticate when a PIN is enabled.
usePin ==
    /\ UNCHANGED payVars
    /\ nav = "authentication"
    /\ screenPurpose = AuthenticationScreenPurpose.Authenticate
    /\ isPinEnabled
    /\ nav' = "pin"
    /\ lastHandler' = "usePin"
    /\ lastEffects' = <<"navigation.navigate">>
    /\ UNCHANGED <<screenPurpose, isPinEnabled, prompts, attempts, pinAttempts,
                   isBiometricsEnabled, clipboardChecks, resetting, alerts,
                   resetsDone, logouts, replaces>>

\* The user comes back from the PIN screen: the authentication screen is
\* focused again.
pinBack ==
    /\ UNCHANGED payVars
    /\ nav = "pin"
    /\ nav' = "authentication"
    /\ lastHandler' = "pinBack"
    /\ lastEffects' = <<>>
    /\ UNCHANGED <<screenPurpose, isPinEnabled, prompts, attempts, pinAttempts,
                   isBiometricsEnabled, clipboardChecks, resetting, alerts,
                   resetsDone, logouts, replaces>>

(***************************************************************************)
(* Specifications.                                                          *)
(***************************************************************************)
\* The authentication screen is not on the stack.
AuthAbsent ==
    /\ screenPurpose = AuthenticationScreenPurpose.Authenticate
    /\ isPinEnabled = FALSE
    /\ nav = "sendBitcoinConfirmation"
    /\ prompts = 0
    /\ attempts = 0
    /\ pinAttempts = 0
    /\ isBiometricsEnabled = FALSE
    /\ clipboardChecks = 0
    /\ resetting = 0
    /\ alerts = 0
    /\ resetsDone = 0
    /\ logouts = 0
    /\ replaces = 0
    /\ lastHandler = "none"
    /\ lastEffects = <<>>

\* The payment confirmation screen is not on the stack.
PayAbsent ==
    /\ paymentType = "other"
    /\ amountless = FALSE
    /\ usernameIsValid = FALSE
    /\ paymentSatAmount = 0
    /\ fee = Null
    /\ balance = 0
    /\ status = Status.IDLE
    /\ errs = <<>>
    /\ inflight = <<>>
    /\ dispatched = <<>>
    /\ walletQueries = 0
    /\ escaped = 0
    /\ popped = 0
    /\ presses = 0
    /\ lastSettled = NoSettled

Init == PayInit /\ AuthAbsent

Next == Press \/ Settle \/ FeeArrives \/ BalanceChanges

Spec == Init /\ [][Next]_vars

AuthInitial == AuthInit /\ PayAbsent

AuthNext ==
    \/ attemptAuthentication
    \/ BiometricSucceeds
    \/ BiometricFails
    \/ logout
    \/ logoutResumes
    \/ logoutRejects
    \/ alertOk
    \/ skip
    \/ usePin
    \/ pinBack

AuthSpec == AuthInitial /\ [][AuthNext]_vars

(***************************************************************************)
(* Properties of the payment confirmation screen (specification Spec).      *)
(***************************************************************************)
\* The kinds of step, read off the state.
PressStep == presses' = presses + 1
SettleStep == Len(inflight') = Len(inflight) - 1
DispatchStep == Len(dispatched') > Len(dispatched)
Closed == {"success", "pending", "error"}

\* C1: when a dispatched mutation rejects, or resolves with a result whose
\* status cannot be read (no data), the pay operation catches the failure:
\* status becomes "error", errs becomes a list of exactly one message and no
\* exception leaves the operation; status is "loading" only while a mutation
\* is still unsettled.
C1_FailureCaught ==
    /\ [](escaped = 0)
    /\ [](inflight = <<>> => status # "loading")
    /\ [][(SettleStep /\ (lastSettled'.resp.rejected \/ lastSettled'.resp.data = <<>>))
            => (status' = "error" /\ Len(errs') = 1 /\ escaped' = escaped)]_vars

\* A mutation resolved without data, and the screen shows the one error.
C1_Witness ==
    /\ lastSettled.mutation = "onChainPaymentSend"
    /\ ~lastSettled.resp.rejected
    /\ lastSettled.resp.data = <<>>
    /\ status = "error"
    /\ Len(errs) = 1
    /\ inflight = <<>>

\* C2: there is no retry. From a state whose status is error (or success or
\* pending) no step dispatches a mutation and the status stays among these
\* three, so once status has been "error" nothing is dispatched again; a
\* press in the error state pops two screens and changes nothing else.
C2_NoRetry ==
    /\ [][(status \in Closed) => (dispatched' = dispatched /\ status' \in Closed)]_vars
    /\ [][(PressStep /\ status = "error")
            => (popped' = popped + 2
                /\ UNCHANGED <<status, errs, inflight, dispatched, walletQueries>>)]_vars

\* A failed payment was closed by a second press, with one mutation dispatched.
C2_Witness ==
    /\ status = "error"
    /\ popped = 2
    /\ Len(dispatched) = 1
    /\ presses = 2

\* The mutation the lookup names for the screen's route parameters.
ExpectedMutation ==
    CASE paymentType = "username" -> "intraLedgerPaymentSend"
      [] paymentType = "lightning" /\ amountless -> "lnNoAmountInvoicePaymentSend"
      [] paymentType = "lightning" /\ ~amountless -> "lnInvoicePaymentSend"
      [] paymentType = "onchain" -> "onChainPaymentSend"
      [] OTHER -> "none"

\* C3: pay is a static lookup on (paymentType, amountless). A mutation is
\* dispatched only by a press, a press dispatches at most one, the one
\* dispatched is the one the table names, and for a paymentType outside the
\* table a press that reaches pay leaves status, errs and the mutations alone.
C3_StaticLookup ==
    /\ [][DispatchStep => PressStep]_vars
    /\ [][PressStep =>
            /\ Len(dispatched') <= Len(dispatched) + 1
            /\ DispatchStep =>
                  /\ dispatched' = Append(dispatched, ExpectedMutation)
                  /\ inflight' = Append(inflight, ExpectedMutation)
            /\ ExpectedMutation = "none" =>
                  UNCHANGED <<status, errs, inflight, dispatched>>]_vars

\* An amountless Lightning payment dispatched the no-amount mutation.
C3_Witness ==
    /\ paymentType = "lightning"
    /\ amountless
    /\ dispatched = <<"lnNoAmountInvoicePaymentSend">>

\* The total the balance is checked against: the amount plus the fee, or
\* the amount alone while the fee is null.
Total == IF fee = <<>> THEN paymentSatAmount ELSE paymentSatAmount + fee[1]

\* C5: status starts as idle and is always one of idle, loading, pending,
\* success, error. A press pops two screens when status is success, pending
\* or error; otherwise it pops one screen when the total exceeds the
\* balance; otherwise it pops nothing and runs pay. So a mutation is
\* dispatched only by a press made in idle or loading with the total within
\* the balance.
C5_ButtonAction ==
    /\ status = "idle"
    /\ [](status \in {"idle", "loading", "pending", "success", "error"})
    /\ [][PressStep =>
            IF status \in Closed
            THEN popped' = popped + 2 /\ UNCHANGED <<status, errs, inflight, dispatched>>
            ELSE IF Total > balance
            THEN popped' = popped + 1 /\ UNCHANGED <<status, errs, inflight, dispatched>>
            ELSE popped' = popped /\ pay]_vars
    /\ [][DispatchStep =>
            (PressStep /\ status \in {"idle", "loading"} /\ Total <= balance)]_vars

\* A press with the total above the balance popped one screen, nothing paid.
C5_Witness ==
    /\ popped = 1
    /\ status = "idle"
    /\ dispatched = <<>>
    /\ fee # <<>>
    /\ paymentSatAmount <= balance
    /\ Total > balance

\* The route parameters for which the pay operation chosen by pay fails
\* its check before dispatch.
FailsValidation ==
    \/ paymentType = "username" /\ ~usernameIsValid
    \/ paymentType = "lightning" /\ amountless /\ paymentSatAmount = 0
    \/ paymentType = "onchain" /\ paymentSatAmount = 0

\* The route parameters that send a zero amount through payLightning, or
\* through payUsername with a valid username.
ZeroAmountUnchecked ==
    /\ paymentSatAmount = 0
    /\ \/ paymentType = "lightning" /\ ~amountless
       \/ paymentType = "username" /\ usernameIsValid

\* C6: payUsername with an invalid username, and payAmountlessLightning and
\* payOnchain with an amount of 0 sats, set status to error with exactly one
\* message and dispatch nothing; on such a screen status is never loading
\* and nothing is ever dispatched. payLightning and payUsername have no
\* zero-amount check: with 0 sats they dispatch.
C6_Validation ==
    /\ [](FailsValidation =>
            /\ status \in {"idle", "error"}
            /\ dispatched = <<>>
            /\ inflight = <<>>)
    /\ [][(PressStep /\ popped' = popped /\ FailsValidation) =>
            /\ status' = "error"
            /\ Len(errs') = 1
            /\ UNCHANGED <<inflight, dispatched>>]_vars
    /\ [][(PressStep /\ popped' = popped /\ ZeroAmountUnchecked) =>
            (DispatchStep /\ status' = "loading" /\ errs' = <<>>)]_vars

\* An on-chain payment of 0 sats was refused before any dispatch.
C6_Witness ==
    /\ paymentType = "onchain"
    /\ paymentSatAmount = 0
    /\ status = "error"
    /\ errs = <<[message |-> <<"SendBitcoinScreen.noAmount">>]>>
    /\ dispatched = <<>>
    /\ presses = 1

\* The errors a resolved, readable answer returns: the top-level GraphQL
\* errors (their messages) when present, otherwise the payload's errors.
Returned(resp) ==
    IF resp.errors # <<>>
    THEN [i \in 1..Len(resp.errors[1]) |-> [message |-> resp.errors[1][i].message]]
    ELSE resp.data[1].errors

ReturnMappingSingleFlight ==
    [][(SettleStep /\ Len(dispatched) = 1 /\ ~lastSettled'.resp.rejected
          /\ lastSettled'.resp.data # <<>> /\ lastSettled'.resp.data[1].status # "FAILURE")
         => errs' = <<>>]_vars

(***************************************************************************)
(* Properties of the authentication screen (specification AuthSpec).       *)
(***************************************************************************)
\* C4: for Authenticate, navigation.replace("Primary") is called, and the
\* top screen becomes Primary, only by the biometric success callback or by
\* the OK button of the logged-out alert, which exists only after a
\* resetDataStore has finished; the failure callback changes nothing but the
\* answered prompt, however many attempts are made.
C4_Gating ==
    /\ [][(screenPurpose = "Authenticate"
            /\ (replaces' # replaces \/ (nav' = "Primary" /\ nav # "Primary")))
          => \/ lastHandler' = "handleAuthenticationSuccess" /\ prompts' = prompts - 1
             \/ lastHandler' = "alertOk" /\ alerts' = alerts - 1 /\ resetsDone > 0]_vars
    /\ [](alerts > 0 => resetsDone > 0)
    /\ [][(lastHandler' = "handleAuthenticationFailure") =>
            /\ prompts' = prompts - 1
            /\ lastEffects' = <<>>
            /\ UNCHANGED <<nav, replaces, pinAttempts, isBiometricsEnabled,
                           clipboardChecks, resetting, alerts, resetsDone,
                           logouts, attempts>>]_vars

\* Every attempt allowed was made and each prompt was dismissed: the screen
\* is still the gate.
C4_Witness ==
    /\ screenPurpose = "Authenticate"
    /\ lastHandler = "handleAuthenticationFailure"
    /\ attempts >= 2
    /\ prompts = 0
    /\ nav = "authentication"
    /\ replaces = 0

\* C8: the success callback, for Authenticate, resets the PIN attempts, then
\* replaces the screen by Primary, then checks the clipboard, and does not
\* write the biometrics flag; for TurnOnAuthentication it only sets the
\* biometrics flag, and the screen leaves only by the skip button.
C8_SuccessEffects ==
    /\ [][(lastHandler' = "handleAuthenticationSuccess") =>
            IF screenPurpose = "Authenticate"
            THEN /\ lastEffects' = <<"KeyStoreWrapper.resetPinAttempts",
                                     "navigation.replace", "checkClipboard">>
                 /\ pinAttempts' = 0
                 /\ nav' = "Primary"
                 /\ replaces' = replaces + 1
                 /\ clipboardChecks' = clipboardChecks + 1
                 /\ isBiometricsEnabled' = isBiometricsEnabled
            ELSE /\ lastEffects' = <<"KeyStoreWrapper.setIsBiometricsEnabled">>
                 /\ isBiometricsEnabled'
                 /\ UNCHANGED <<pinAttempts, nav, replaces, clipboardChecks>>]_vars
    /\ [][(screenPurpose = "TurnOnAuthentication" /\ nav' # nav) =>
            (lastHandler' = "skip" /\ nav' = "Primary")]_vars

\* The prompt succeeded on the gate: PIN attempts reset, screen replaced,
\* clipboard checked, in this order.
C8_Witness ==
    /\ screenPurpose = "Authenticate"
    /\ lastHandler = "handleAuthenticationSuccess"
    /\ lastEffects = <<"KeyStoreWrapper.resetPinAttempts", "navigation.replace",
                       "checkClipboard">>
    /\ nav = "Primary"
    /\ pinAttempts = 0
    /\ replaces = 1
    /\ clipboardChecks = 1

====
